---- MODULE Spec2Model ----
(***************************************************************************)
(* A model of the users repository: the validator package, the database   *)
(* service (New, Health, Close, CreateUser, GetUserByID, UpdateUserByID)   *)
(* and the users table the service talks to.                               *)
(*                                                                         *)
(* Go strings are sequences of one-character strings, so that the          *)
(* statement UpdateUserByID assembles, the slice it cuts off its end and   *)
(* the regular expression of isValidEmail work on characters.  A Go        *)
(* pointer field (to a string or a uint) is a sequence of length 0 (nil)   *)
(* or of length 1.                                                         *)
(***************************************************************************)
EXTENDS Naturals, Sequences, FiniteSets

VARIABLES
    store,       \* the users table: the set of its rows
    nextUuid,    \* how many identities uuid.New() has handed out
    dbClosed,    \* whether sql.DB.Close() was called on the service's handle
    running,     \* FALSE once log.Fatal / log.Fatalf has ended the process
    lastOp,      \* the last service call: arguments, statement sent, results
    prevStore,   \* the table as it was when the last service call started
    dbInstance,  \* the package variable dbInstance: 0 is nil, else a handle
    opened,      \* how many handles sql.Open has created in the process
    newPc,       \* each caller's position inside New()
    newDb,       \* each caller's local variable db inside New()
    newRet,      \* what New() returned to each caller last (0: nothing yet)
    connStrOk,   \* whether the DB_* environment makes a connection string
                 \* that sql.Open accepts
    vIn,         \* the validator's input: a User and a UserUpdate
    vOut         \* the validator's results for vIn

vars == <<store, nextUuid, dbClosed, running, lastOp, prevStore,
          dbInstance, opened, newPc, newDb, newRet, connStrOk, vIn, vOut>>

svcVars == <<store, nextUuid, dbClosed, running, lastOp, prevStore>>
newVars == <<dbInstance, opened, newPc, newDb, newRet, connStrOk>>
valVars == <<vIn, vOut>>

----------------------------------------------------------------------------
(* Strings and pointers *)

Nil == <<>>
Ptr(v) == <<v>>
Deref(p) == p[1]

StartsWith(s, p) == Len(s) >= Len(p) /\ SubSeq(s, 1, Len(p)) = p
Drop(s, n) == SubSeq(s, n + 1, Len(s))

DigitChars == <<"0", "1", "2", "3", "4", "5", "6", "7", "8", "9">>

RECURSIVE Itoa(_)
Itoa(n) == IF n < 10 THEN <<DigitChars[n + 1]>>
           ELSE Itoa(n \div 10) \o <<DigitChars[(n % 10) + 1]>>

IsDigit(c) == \E d \in 1..10 : DigitChars[d] = c
DigitVal(c) == (CHOOSE d \in 1..10 : DigitChars[d] = c) - 1

\* the string literals of UpdateUserByID
sUpdateSet == <<"U","P","D","A","T","E"," ","u","s","e","r","s"," ","S","E","T"," ">>
sFirstName == <<"f","i","r","s","t","_","n","a","m","e">>
sLastName == <<"l","a","s","t","_","n","a","m","e">>
sAge == <<"a","g","e">>
sEmail == <<"e","m","a","i","l">>
sId == <<"i","d">>
sEqDollar == <<" ","=", " ","$">>
sCommaSp == <<",", " ">>
sWhereId == <<" ","W","H","E","R","E"," ","i","d"," ","=", " ","$">>
sReturning == <<" ","R","E","T","U","R","N","I","N","G"," ">>
                \o sId \o sCommaSp \o sFirstName \o sCommaSp \o sLastName
                \o sCommaSp \o sEmail \o sCommaSp \o sAge

----------------------------------------------------------------------------
(* Statement parameters: what database/sql passes beside the statement *)

TextParam(s) == [kind |-> "text", s |-> s, n |-> 0]
IntParam(n) == [kind |-> "int", s |-> <<>>, n |-> n]

----------------------------------------------------------------------------
(* UpdateUserByID, lines 158-185: the statement and its parameters *)

\* AppendField without paramId++
AppendFieldNoIncrement(b, col, ptr, param) ==
    IF ptr # Nil
    THEN [query |-> b.query \o col \o sEqDollar \o Itoa(b.paramId) \o sCommaSp,
          params |-> Append(b.params, param),
          paramId |-> b.paramId]
    ELSE b

\* one "if updates.F != nil { query += ...; params = append(...); paramId++ }"
AppendField(b, col, ptr, param) ==
    IF ptr # Nil
    THEN [query |-> b.query \o col \o sEqDollar \o Itoa(b.paramId) \o sCommaSp,
          params |-> Append(b.params, param),
          paramId |-> b.paramId + 1]
    ELSE b

\* query[:len(query)-2] + " WHERE id = $%d RETURNING ..." ; append(params, id)
FinishUpdate(b, id) ==
    [query |-> SubSeq(b.query, 1, Len(b.query) - 2)
                 \o sWhereId \o Itoa(b.paramId) \o sReturning,
     params |-> Append(b.params, TextParam(id))]

\* BuildUpdate with the email branch writing the last_name column
BuildUpdateEmailIntoLastName(id, updates) ==
    LET b0 == [query |-> sUpdateSet, params |-> <<>>, paramId |-> 1]
        b1 == AppendField(b0, sFirstName, updates.FirstName,
                          IF updates.FirstName # Nil
                          THEN TextParam(Deref(updates.FirstName)) ELSE Nil)
        b2 == AppendField(b1, sLastName, updates.LastName,
                          IF updates.LastName # Nil
                          THEN TextParam(Deref(updates.LastName)) ELSE Nil)
        b3 == AppendField(b2, sAge, updates.Age,
                          IF updates.Age # Nil
                          THEN IntParam(Deref(updates.Age)) ELSE Nil)
        b4 == AppendField(b3, sLastName, updates.Email,
                          IF updates.Email # Nil
                          THEN TextParam(Deref(updates.Email)) ELSE Nil)
    IN  FinishUpdate(b4, id)

BuildUpdate(id, updates) ==
    LET b0 == [query |-> sUpdateSet, params |-> <<>>, paramId |-> 1]
        b1 == AppendField(b0, sFirstName, updates.FirstName,
                          IF updates.FirstName # Nil
                          THEN TextParam(Deref(updates.FirstName)) ELSE Nil)
        b2 == AppendField(b1, sLastName, updates.LastName,
                          IF updates.LastName # Nil
                          THEN TextParam(Deref(updates.LastName)) ELSE Nil)
        b3 == AppendField(b2, sAge, updates.Age,
                          IF updates.Age # Nil
                          THEN IntParam(Deref(updates.Age)) ELSE Nil)
        b4 == AppendField(b3, sEmail, updates.Email,
                          IF updates.Email # Nil
                          THEN TextParam(Deref(updates.Email)) ELSE Nil)
    IN  FinishUpdate(b4, id)

----------------------------------------------------------------------------
(* The users table and the statements the service sends to it *)

ErrNil == "nil"
ErrNoRows == "sql: no rows in result set"
ErrUnique == "unique_violation"
ErrSyntax == "syntax_error"
ErrBind == "bind_error"
ErrConn == "connection_error"
ErrClosed == "sql: database is closed"

\* CREATE TABLE users: the columns the service reads and writes (created is
\* filled in by the store's default and is never selected)
Row(id, first, last, age, email) ==
    [id |-> id, first_name |-> first, last_name |-> last, age |-> age,
     email |-> email]

\* id ... PRIMARY KEY
PrimaryKeyFree(tbl, id) == \A r \in tbl : r.id # id

\* the email column without its UNIQUE constraint
EmailUnconstrained(tbl, id, email) == TRUE

\* email ... UNIQUE: no row other than the one with identity id has the email
EmailFree(tbl, id, email) == \A r \in tbl : r.id = id \/ r.email # email

\* the type of each column, as the kind of parameter it takes
ColumnKind(col) == IF col = sAge THEN "int" ELSE "text"

SetColumn(row, col, param) ==
    CASE col = sFirstName -> [row EXCEPT !.first_name = param.s]
      [] col = sLastName -> [row EXCEPT !.last_name = param.s]
      [] col = sAge -> [row EXCEPT !.age = param.n]
      [] col = sEmail -> [row EXCEPT !.email = param.s]
      [] OTHER -> row

\* the leading decimal number of s: [ok, n, rest]
RECURSIVE ReadDigits(_, _, _)
ReadDigits(s, n, any) ==
    IF s # <<>> /\ IsDigit(s[1])
    THEN ReadDigits(Tail(s), 10 * n + DigitVal(s[1]), TRUE)
    ELSE [ok |-> any, n |-> n, rest |-> s]

BadStatement == [ok |-> FALSE, assigns |-> <<>>, idParam |-> 0]

\* "col = $n" {", " "col = $n"} " WHERE id = $m RETURNING id, first_name, ..."
RECURSIVE ParseAssigns(_, _)
ParseAssigns(s, acc) ==
    LET cols == {c \in {sFirstName, sLastName, sAge, sEmail} :
                    StartsWith(s, c \o sEqDollar)}
    IN  IF cols = {} THEN BadStatement
        ELSE LET col == CHOOSE c \in cols : TRUE
                 num == ReadDigits(Drop(s, Len(col) + Len(sEqDollar)), 0, FALSE)
                 acc2 == Append(acc, [col |-> col, n |-> num.n])
             IN  IF ~num.ok \/ (\E i \in 1..Len(acc) : acc[i].col = col)
                 THEN BadStatement
                 ELSE IF StartsWith(num.rest, sCommaSp)
                 THEN ParseAssigns(Drop(num.rest, Len(sCommaSp)), acc2)
                 ELSE IF StartsWith(num.rest, sWhereId)
                 THEN LET idn == ReadDigits(Drop(num.rest, Len(sWhereId)), 0, FALSE)
                      IN  IF idn.ok /\ idn.rest = sReturning
                          THEN [ok |-> TRUE, assigns |-> acc2, idParam |-> idn.n]
                          ELSE BadStatement
                 ELSE BadStatement

\* the store's reading of an UPDATE users SET ... statement
ParseUpdate(query) ==
    IF StartsWith(query, sUpdateSet)
    THEN ParseAssigns(Drop(query, Len(sUpdateSet)), <<>>)
    ELSE BadStatement

RECURSIVE ApplyAssigns(_, _, _)
ApplyAssigns(row, assigns, params) ==
    IF assigns = <<>> THEN row
    ELSE ApplyAssigns(SetColumn(row, Head(assigns).col, params[Head(assigns).n]),
                      Tail(assigns), params)

\* every $n names a parameter of the column's type
BindsOk(p, params) ==
    /\ p.idParam \in 1..Len(params)
    /\ params[p.idParam].kind = "text"
    /\ \A i \in 1..Len(p.assigns) :
          /\ p.assigns[i].n \in 1..Len(params)
          /\ params[p.assigns[i].n].kind = ColumnKind(p.assigns[i].col)

\* UPDATE ... WHERE id = $m RETURNING ...: [err, tbl, rows]
ExecUpdate(tbl, query, params) ==
    LET p == ParseUpdate(query)
        fail(e) == [err |-> e, tbl |-> tbl, rows |-> {}]
    IN  IF ~p.ok THEN fail(ErrSyntax)
        ELSE IF ~BindsOk(p, params) THEN fail(ErrBind)
        ELSE LET hit == {r \in tbl : r.id = params[p.idParam].s}
             IN  IF hit = {} THEN fail(ErrNoRows)
                 ELSE LET old == CHOOSE r \in hit : TRUE
                          new == ApplyAssigns(old, p.assigns, params)
                      IN  IF ~EmailFree(tbl, old.id, new.email)
                          THEN fail(ErrUnique)
                          ELSE [err |-> ErrNil,
                                tbl |-> (tbl \ {old}) \cup {new},
                                rows |-> {new}]

\* INSERT INTO users (id, first_name, last_name, email, age)
\* VALUES ($1, $2, $3, $4, $5): [err, tbl]
ExecInsert(tbl, params) ==
    LET new == Row(params[1].s, params[2].s, params[3].s, params[5].n,
                   params[4].s)
    IN  IF PrimaryKeyFree(tbl, new.id) /\ EmailFree(tbl, new.id, new.email)
        THEN [err |-> ErrNil, tbl |-> tbl \cup {new}]
        ELSE [err |-> ErrUnique, tbl |-> tbl]

\* SELECT id, first_name, last_name, email, age FROM users WHERE id = $1
ExecSelect(tbl, params) == {r \in tbl : r.id = params[1].s}

----------------------------------------------------------------------------
(* models.User and models.UserUpdate *)

User(id, first, last, age, email) ==
    [ID |-> id, FirstName |-> first, LastName |-> last, Age |-> age,
     Email |-> email, Created |-> 0]

UserUpdate(first, last, age, email) ==
    [FirstName |-> first, LastName |-> last, Age |-> age, Email |-> email]

\* rows.Scan(&user.ID, &user.FirstName, &user.LastName, &user.Email, &user.Age)
\* of the columns id, first_name, last_name, email, age; Created stays zero
Scan(row) ==
    LET cols == <<row.id, row.first_name, row.last_name, row.email, row.age>>
    IN  [ID |-> cols[1], FirstName |-> cols[2], LastName |-> cols[3],
         Email |-> cols[4], Age |-> cols[5], Created |-> 0]

----------------------------------------------------------------------------
(* The database service, part_000 lines 73-194 *)

\* the error of reaching the store through the handle: Close() was called
\* on it, or the store cannot be reached, or none
Link(closed, reachable) ==
    IF closed THEN ErrClosed ELSE IF ~reachable THEN ErrConn ELSE ErrNil

\* uuid.New(): the n-th identity handed out, never one handed out before
Uuid(n) == <<"u">> \o Itoa(n)

\* sql.DBStats, the four numbers Health() compares
DBStats(open, waits, idleClosed, lifetimeClosed) ==
    [OpenConnections |-> open, WaitCount |-> waits,
     MaxIdleClosed |-> idleClosed, MaxLifetimeClosed |-> lifetimeClosed]

\* a key the map lacks reads as the empty sequence
NoStats == [status |-> <<>>, error |-> <<>>, message |-> <<>>]

\* lines 102-117: the later test that holds decides the message
HealthMessage(dbStats) ==
    LET m0 == "It's healthy"
        m1 == IF dbStats.OpenConnections > 40 THEN "heavy load" ELSE m0
        m2 == IF dbStats.WaitCount > 1000 THEN "wait events" ELSE m1
        m3 == IF dbStats.MaxIdleClosed > dbStats.OpenConnections \div 2
              THEN "idle closed" ELSE m2
        m4 == IF dbStats.MaxLifetimeClosed > dbStats.OpenConnections \div 2
              THEN "lifetime closed" ELSE m3
    IN  m4

\* Health() with the failed probe only logged, so that the map is returned
HealthLogOnly(pingErr, dbStats) ==
    IF pingErr # ErrNil
    THEN [stats |-> [status |-> <<"down">>,
                     error |-> <<"db down: ", pingErr>>,
                     message |-> <<>>],
          fatal |-> FALSE]
    ELSE [stats |-> [status |-> <<"up">>, error |-> <<>>,
                     message |-> <<HealthMessage(dbStats)>>],
          fatal |-> FALSE]

\* Health(): the map it fills in, and whether log.Fatalf ends the process
\* before the return statement is reached
Health(pingErr, dbStats) ==
    IF pingErr # ErrNil
    THEN [stats |-> [status |-> <<"down">>,
                     error |-> <<"db down: ", pingErr>>,
                     message |-> <<>>],
          fatal |-> TRUE]
    ELSE [stats |-> [status |-> <<"up">>, error |-> <<>>,
                     message |-> <<HealthMessage(dbStats)>>],
          fatal |-> FALSE]

\* CreateUser inserting the identity the caller put into user.ID
CreateUserKeepsClientId(tbl, link, user, id) ==
    LET params == <<TextParam(user.ID), TextParam(user.FirstName),
                    TextParam(user.LastName), TextParam(user.Email),
                    IntParam(user.Age)>>
        res == IF link # ErrNil THEN [err |-> link, tbl |-> tbl]
               ELSE ExecInsert(tbl, params)
    IN  [err |-> res.err, tbl |-> res.tbl, user |-> user, params |-> params]

\* CreateUser(user) with id the result of uuid.New(): the error returned,
\* the table afterwards, and the caller's user afterwards
CreateUser(tbl, link, user, id) ==
    LET params == <<TextParam(id), TextParam(user.FirstName),
                    TextParam(user.LastName), TextParam(user.Email),
                    IntParam(user.Age)>>
        res == IF link # ErrNil THEN [err |-> link, tbl |-> tbl]
               ELSE ExecInsert(tbl, params)
    IN  [err |-> res.err, tbl |-> res.tbl, user |-> user, params |-> params]

GetUserByID(tbl, link, id) ==
    LET rows == ExecSelect(tbl, <<TextParam(id)>>)
    IN  IF link # ErrNil THEN [user |-> Nil, err |-> link]
        ELSE IF rows = {} THEN [user |-> Nil, err |-> ErrNoRows]
        ELSE [user |-> Ptr(Scan(CHOOSE r \in rows : TRUE)), err |-> ErrNil]

UpdateUserByID(tbl, link, id, updates) ==
    LET b == BuildUpdate(id, updates)
        res == IF link # ErrNil THEN [err |-> link, tbl |-> tbl, rows |-> {}]
               ELSE ExecUpdate(tbl, b.query, b.params)
    IN  [user |-> IF res.err # ErrNil THEN Nil
                  ELSE Ptr(Scan(CHOOSE r \in res.rows : TRUE)),
         err |-> res.err, tbl |-> res.tbl,
         query |-> b.query, params |-> b.params]

----------------------------------------------------------------------------
(* Bounds and the inputs the calls are made with *)

MaxCreates == 2
NumCallers == 3

aliceMail == <<"a","@","x",".","i","o">>
bobMail == <<"b","@","x",".","i","o">>

FirstNames == {<<"A">>, <<"B">>}
LastNames == {<<"L">>, <<"M">>}
\* ages a uint holds and the INTEGER column takes
Ages == {0, 30}
Emails == {aliceMail, bobMail}
\* what a caller may have put into user.ID: nothing, or a minted identity
ClientIds == {<<>>, Uuid(1)}
\* identities looked up: every one that can be minted, and one that never is
LookupIds == {Uuid(n) : n \in 1..MaxCreates} \cup {<<"x">>}

Opt(S) == {Nil} \cup {Ptr(v) : v \in S}

UserInputs ==
    {User(i, f, l, a, e) :
        i \in ClientIds, f \in FirstNames, l \in LastNames, a \in Ages,
        e \in Emails}

UpdateInputs ==
    {UserUpdate(f, l, a, e) :
        f \in Opt(FirstNames), l \in Opt(LastNames), a \in Opt(Ages),
        e \in Opt(Emails)}

NoUpdate == UserUpdate(Nil, Nil, Nil, Nil)

PoolSamples ==
    {DBStats(1, 0, 0, 0), DBStats(41, 0, 0, 0), DBStats(2, 1001, 0, 0),
     DBStats(2, 0, 2, 0), DBStats(2, 0, 0, 2)}

----------------------------------------------------------------------------
(* The service's calls as actions *)

NoOp ==
    [op |-> "none", id |-> <<>>, user |-> Nil, updates |-> NoUpdate,
     link |-> ErrNil, query |-> <<>>, params |-> <<>>, err |-> ErrNil,
     ret |-> Nil, userAfter |-> Nil, minted |-> <<>>, stats |-> NoStats,
     returned |-> FALSE]

HealthCall ==
    /\ running
    /\ lastOp.op = "none"
    /\ \E reachable \in BOOLEAN :
       \E dbStats \in IF dbClosed \/ ~reachable THEN {DBStats(0, 0, 0, 0)}
                      ELSE PoolSamples :
          LET h == Health(Link(dbClosed, reachable), dbStats)
          IN  /\ lastOp' = [NoOp EXCEPT !.op = "Health",
                                        !.link = Link(dbClosed, reachable),
                                        !.stats = h.stats,
                                        !.returned = ~h.fatal]
              /\ running' = ~h.fatal
    /\ prevStore' = store
    /\ UNCHANGED <<store, nextUuid, dbClosed>>
    /\ UNCHANGED <<newVars, valVars>>

\* the link a data call meets: the store is reachable while a statement
\* runs, so the failure such a call can meet is the closed handle
DataLink == Link(dbClosed, TRUE)

CloseCall ==
    /\ running
    /\ lastOp.op = "none"
    /\ dbClosed' = TRUE
    /\ lastOp' = [NoOp EXCEPT !.op = "Close", !.returned = TRUE]
    /\ prevStore' = store
    /\ UNCHANGED <<store, nextUuid, running>>
    /\ UNCHANGED <<newVars, valVars>>

CreateUserCall ==
    /\ running
    /\ lastOp.op = "none"
    /\ nextUuid < MaxCreates
    /\ \E user \in UserInputs :
          LET id == Uuid(nextUuid + 1)
              c == CreateUser(store, DataLink, user, id)
          IN  /\ store' = c.tbl
              /\ lastOp' = [NoOp EXCEPT !.op = "CreateUser",
                                        !.user = Ptr(user),
                                        !.link = DataLink,
                                        !.params = c.params,
                                        !.err = c.err,
                                        !.userAfter = Ptr(c.user),
                                        !.minted = id,
                                        !.returned = TRUE]
    /\ nextUuid' = nextUuid + 1
    /\ prevStore' = store
    /\ UNCHANGED <<dbClosed, running>>
    /\ UNCHANGED <<newVars, valVars>>

GetUserByIDCall ==
    /\ running
    /\ lastOp.op = "none"
    /\ \E id \in LookupIds :
          LET g == GetUserByID(store, DataLink, id)
          IN  lastOp' = [NoOp EXCEPT !.op = "GetUserByID",
                                     !.id = id,
                                     !.link = DataLink,
                                     !.err = g.err,
                                     !.ret = g.user,
                                     !.returned = TRUE]
    /\ prevStore' = store
    /\ UNCHANGED <<store, nextUuid, dbClosed, running>>
    /\ UNCHANGED <<newVars, valVars>>

UpdateUserByIDCall ==
    /\ running
    /\ lastOp.op = "none"
    /\ \E id \in LookupIds, updates \in UpdateInputs :
          LET u == UpdateUserByID(store, DataLink, id, updates)
          IN  /\ store' = u.tbl
              /\ lastOp' = [NoOp EXCEPT !.op = "UpdateUserByID",
                                        !.id = id,
                                        !.updates = updates,
                                        !.link = DataLink,
                                        !.query = u.query,
                                        !.params = u.params,
                                        !.err = u.err,
                                        !.ret = u.user,
                                        !.returned = TRUE]
    /\ prevStore' = store
    /\ UNCHANGED <<nextUuid, dbClosed, running>>
    /\ UNCHANGED <<newVars, valVars>>

\* the caller takes the result of its call and is free to make the next one
Return ==
    /\ running
    /\ lastOp.op # "none"
    /\ lastOp' = NoOp
    /\ prevStore' = store
    /\ UNCHANGED <<store, nextUuid, dbClosed, running>>
    /\ UNCHANGED <<newVars, valVars>>

NoValidation ==
    [kind |-> "none", user |-> User(<<>>, <<>>, <<>>, 0, <<>>),
     updates |-> NoUpdate]

\* the state once New() has built the service: one handle, an empty table
Init ==
    /\ store = {}
    /\ nextUuid = 0
    /\ dbClosed = FALSE
    /\ running = TRUE
    /\ lastOp = NoOp
    /\ prevStore = {}
    /\ dbInstance = 1
    /\ opened = 1
    /\ newPc = [c \in 1..NumCallers |-> "idle"]
    /\ newDb = [c \in 1..NumCallers |-> 0]
    /\ newRet = [c \in 1..NumCallers |-> 1]
    /\ connStrOk = TRUE
    /\ vIn = NoValidation
    /\ vOut = [user |-> ErrNil, updates |-> ErrNil]

Next ==
    \/ HealthCall
    \/ CloseCall
    \/ CreateUserCall
    \/ GetUserByIDCall
    \/ UpdateUserByIDCall
    \/ Return

Spec == Init /\ [][Next]_vars

\* UpdateUserByID alone, on a table that holds one user or none
InitUpdate ==
    /\ store \in {{}, {Row(Uuid(1), <<"A">>, <<"L">>, 0, aliceMail)}}
    /\ nextUuid = Cardinality(store)
    /\ dbClosed = FALSE
    /\ running = TRUE
    /\ lastOp = NoOp
    /\ prevStore = store
    /\ dbInstance = 1
    /\ opened = 1
    /\ newPc = [c \in 1..NumCallers |-> "idle"]
    /\ newDb = [c \in 1..NumCallers |-> 0]
    /\ newRet = [c \in 1..NumCallers |-> 1]
    /\ connStrOk = TRUE
    /\ vIn = NoValidation
    /\ vOut = [user |-> ErrNil, updates |-> ErrNil]

NextUpdate ==
    \/ UpdateUserByIDCall
    \/ Return

SpecUpdate == InitUpdate /\ [][NextUpdate]_vars

----------------------------------------------------------------------------
(* New(), part_000 lines 55-69, one action per statement, run by callers  *)
(* that share the package variable dbInstance                              *)

Callers == 1..NumCallers

NewFrame == UNCHANGED <<svcVars, connStrOk, valVars>>

\* a caller enters New()
NewCall(c) ==
    /\ running
    /\ newPc[c] = "idle"
    /\ newPc' = [newPc EXCEPT ![c] = "check"]
    /\ UNCHANGED <<dbInstance, opened, newDb, newRet>>
    /\ NewFrame

\* line 57: if dbInstance != nil { return dbInstance }
NewCheck(c) ==
    /\ running
    /\ newPc[c] = "check"
    /\ IF dbInstance # 0
       THEN /\ newRet' = [newRet EXCEPT ![c] = dbInstance]
            /\ newPc' = [newPc EXCEPT ![c] = "idle"]
       ELSE /\ newPc' = [newPc EXCEPT ![c] = "open"]
            /\ UNCHANGED newRet
    /\ UNCHANGED <<dbInstance, opened, newDb>>
    /\ NewFrame

\* lines 60-64: db, err := sql.Open(...); if err != nil { log.Fatal(err) }
NewOpen(c) ==
    /\ running
    /\ newPc[c] = "open"
    /\ IF connStrOk
       THEN /\ opened' = opened + 1
            /\ newDb' = [newDb EXCEPT ![c] = opened + 1]
            /\ newPc' = [newPc EXCEPT ![c] = "assign"]
            /\ UNCHANGED running
       ELSE /\ running' = FALSE
            /\ UNCHANGED <<opened, newDb, newPc>>
    /\ UNCHANGED <<dbInstance, newRet>>
    /\ UNCHANGED <<store, nextUuid, dbClosed, lastOp, prevStore>>
    /\ UNCHANGED <<connStrOk, valVars>>

\* lines 65-67: dbInstance = &service{db: db}
NewAssign(c) ==
    /\ running
    /\ newPc[c] = "assign"
    /\ dbInstance' = newDb[c]
    /\ newPc' = [newPc EXCEPT ![c] = "return"]
    /\ UNCHANGED <<opened, newDb, newRet>>
    /\ NewFrame

\* line 68: return dbInstance
NewReturn(c) ==
    /\ running
    /\ newPc[c] = "return"
    /\ newRet' = [newRet EXCEPT ![c] = dbInstance]
    /\ newPc' = [newPc EXCEPT ![c] = "idle"]
    /\ UNCHANGED <<dbInstance, opened, newDb>>
    /\ NewFrame

\* process start: dbInstance is nil and nobody has called New()
InitNew ==
    /\ store = {}
    /\ nextUuid = 0
    /\ dbClosed = FALSE
    /\ running = TRUE
    /\ lastOp = NoOp
    /\ prevStore = {}
    /\ dbInstance = 0
    /\ opened = 0
    /\ newPc = [c \in Callers |-> "idle"]
    /\ newDb = [c \in Callers |-> 0]
    /\ newRet = [c \in Callers |-> 0]
    /\ connStrOk \in BOOLEAN
    /\ vIn = NoValidation
    /\ vOut = [user |-> ErrNil, updates |-> ErrNil]

NextNew ==
    \E c \in Callers :
        \/ NewCall(c)
        \/ NewCheck(c)
        \/ NewOpen(c)
        \/ NewAssign(c)
        \/ NewReturn(c)

SpecNew == InitNew /\ [][NextNew]_vars

----------------------------------------------------------------------------
(* The validator package, part_001 *)

LowerCase == {"a","b","c","d","e","f","g","h","i","j","k","l","m",
              "n","o","p","q","r","s","t","u","v","w","x","y","z"}
UpperCase == {"A","B","C","D","E","F","G","H","I","J","K","L","M",
              "N","O","P","Q","R","S","T","U","V","W","X","Y","Z"}
Digits == {"0","1","2","3","4","5","6","7","8","9"}

Alpha == LowerCase \cup UpperCase                            \* [a-zA-Z]
LocalClass == Alpha \cup Digits \cup {".", "_", "%", "+", "-"}  \* [a-zA-Z0-9._%+-]
DomainClass == Alpha \cup Digits \cup {".", "-"}               \* [a-zA-Z0-9.-]

\* ^[a-zA-Z0-9._%+-]+@[a-zA-Z0-9.-]+\.[a-zA-Z]{2,}$ as the automaton
\* regexp runs: position 0 before the local part, 1 inside it, 2 after the
\* '@', 3 inside the domain, 4 after the '\.', 5 after one letter, 6 after
\* two or more (the only position at which '$' matches)
ReStep(q, c) ==
    CASE q = 0 -> IF c \in LocalClass THEN {1} ELSE {}
      [] q = 1 -> (IF c \in LocalClass THEN {1} ELSE {})
                    \cup (IF c = "@" THEN {2} ELSE {})
      [] q = 2 -> IF c \in DomainClass THEN {3} ELSE {}
      [] q = 3 -> (IF c \in DomainClass THEN {3} ELSE {})
                    \cup (IF c = "." THEN {4} ELSE {})
      [] q = 4 -> IF c \in Alpha THEN {5} ELSE {}
      [] q = 5 -> IF c \in Alpha THEN {6} ELSE {}
      [] q = 6 -> IF c \in Alpha THEN {6} ELSE {}
      [] OTHER -> {}

RECURSIVE ReRun(_, _)
ReRun(qs, s) ==
    IF s = <<>> THEN qs
    ELSE ReRun(UNION {ReStep(q, Head(s)) : q \in qs}, Tail(s))

\* the pattern with {1,} for {2,}: one letter after the last dot is enough
isValidEmailShortTld(email) ==
    LET qs == ReRun({0}, email) IN 5 \in qs \/ 6 \in qs

\* re.MatchString(email)
isValidEmail(email) == 6 \in ReRun({0}, email)

ErrFirstName == "first name is required"
ErrLastName == "last name is required"
ErrEmail == "invalid email address"

ValidateUser(user) ==
    IF user.FirstName = <<>> THEN ErrFirstName
    ELSE IF user.LastName = <<>> THEN ErrLastName
    ELSE IF ~isValidEmail(user.Email) THEN ErrEmail
    ELSE ErrNil

\* ValidateUserUpdate checking the email whether or not it is present
ValidateUserUpdateChecksAbsentEmail(updates) ==
    IF updates.FirstName # Nil /\ Deref(updates.FirstName) = <<>>
    THEN ErrFirstName
    ELSE IF updates.LastName # Nil /\ Deref(updates.LastName) = <<>>
    THEN ErrLastName
    ELSE IF updates.Email = Nil \/ ~isValidEmail(Deref(updates.Email))
    THEN ErrEmail
    ELSE ErrNil

ValidateUserUpdate(updates) ==
    IF updates.FirstName # Nil /\ Deref(updates.FirstName) = <<>>
    THEN ErrFirstName
    ELSE IF updates.LastName # Nil /\ Deref(updates.LastName) = <<>>
    THEN ErrLastName
    ELSE IF updates.Email # Nil /\ ~isValidEmail(Deref(updates.Email))
    THEN ErrEmail
    ELSE ErrNil

----------------------------------------------------------------------------
(* The validator's inputs: every string over EmailChars up to MaxEmailLen  *)
(* as the email, names empty or not, ages and identities of any kind       *)

MaxEmailLen == 6

\* a letter, a character of the local part only, the two separators (the
\* '.' is also the character of both classes that is no letter) and a
\* character of neither class
EmailChars == {"a", "_", "@", ".", "!"}

EmailInputs(k) == [1..k -> EmailChars]

goodMail == <<"a","@","a",".","a","a">>
NameInputs == {<<>>, <<"A">>}
FewEmails == {goodMail, <<"a","@","a">>, <<>>}

ValidatorUsers ==
    {User(i, f, l, a, e) :
        i \in ClientIds, f \in NameInputs, l \in NameInputs, a \in Ages,
        e \in FewEmails}

ValidatorUpdates ==
    {UserUpdate(f, l, a, e) :
        f \in Opt(NameInputs), l \in Opt(NameInputs), a \in Opt(Ages),
        e \in Opt(FewEmails)}

NotRun == "not run"

UserInput(u) == [kind |-> "User", user |-> u, updates |-> NoUpdate]
UpdateInput(p) == [kind |-> "UserUpdate", user |-> NoValidation.user, updates |-> p]

ValFrame == UNCHANGED <<svcVars, newVars>>

ValidateUserCall ==
    /\ vIn.kind = "User"
    /\ vOut.user = NotRun
    /\ vOut' = [vOut EXCEPT !.user = ValidateUser(vIn.user)]
    /\ UNCHANGED vIn
    /\ ValFrame

ValidateUserUpdateCall ==
    /\ vIn.kind = "UserUpdate"
    /\ vOut.updates = NotRun
    /\ vOut' = [vOut EXCEPT !.updates = ValidateUserUpdate(vIn.updates)]
    /\ UNCHANGED vIn
    /\ ValFrame

InitValidator ==
    /\ store = {}
    /\ nextUuid = 0
    /\ dbClosed = FALSE
    /\ running = TRUE
    /\ lastOp = NoOp
    /\ prevStore = {}
    /\ dbInstance = 0
    /\ opened = 0
    /\ newPc = [c \in Callers |-> "idle"]
    /\ newDb = [c \in Callers |-> 0]
    /\ newRet = [c \in Callers |-> 0]
    /\ connStrOk = TRUE
    /\ \/ \E u \in ValidatorUsers : vIn = UserInput(u)
       \/ \E p \in ValidatorUpdates : vIn = UpdateInput(p)
       \/ \E k \in 0..MaxEmailLen : \E e \in EmailInputs(k) :
             \/ vIn = UserInput(User(<<>>, <<"A">>, <<"L">>, 0, e))
             \/ vIn = UpdateInput(UserUpdate(Nil, Nil, Nil, Ptr(e)))
    /\ vOut = [user |-> NotRun, updates |-> NotRun]

NextValidator ==
    \/ ValidateUserCall
    \/ ValidateUserUpdateCall

SpecValidator == InitValidator /\ [][NextValidator]_vars

----------------------------------------------------------------------------
(* Properties of the service, checked under Spec and SpecUpdate *)

\* the places at which sub occurs in q
Occurrences(q, sub) ==
    {i \in 1..(Len(q) + 1 - Len(sub)) : SubSeq(q, i, i + Len(sub) - 1) = sub}

EndsWith(q, sub) ==
    Len(q) >= Len(sub) /\ SubSeq(q, Len(q) + 1 - Len(sub), Len(q)) = sub

sSelect == <<"S","E","L","E","C","T"," ">>

\* the fields of a patch in the fixed order, with the value each carries
PatchFields(u) ==
    <<[col |-> sFirstName, ptr |-> u.FirstName,
       param |-> IF u.FirstName = Nil THEN Nil ELSE TextParam(Deref(u.FirstName))],
      [col |-> sLastName, ptr |-> u.LastName,
       param |-> IF u.LastName = Nil THEN Nil ELSE TextParam(Deref(u.LastName))],
      [col |-> sAge, ptr |-> u.Age,
       param |-> IF u.Age = Nil THEN Nil ELSE IntParam(Deref(u.Age))],
      [col |-> sEmail, ptr |-> u.Email,
       param |-> IF u.Email = Nil THEN Nil ELSE TextParam(Deref(u.Email))]>>

IsPresent(f) == f.ptr # Nil
PresentFields(u) == SelectSeq(PatchFields(u), IsPresent)

IsUpdate == lastOp.op = "UpdateUserByID"
IsCreate == lastOp.op = "CreateUser"
IsGet == lastOp.op = "GetUserByID"
IsHealth == lastOp.op = "Health"

\* C1: an update with no present field never hands the store a statement
\* with an empty or damaged SET clause: either no statement is sent (the call
\* is rejected first), or the statement is a plain fetch, or it is an UPDATE
\* the store can read.
C1_EmptyUpdateSendsNoMalformedStatement ==
    (IsUpdate /\ lastOp.updates = NoUpdate /\ lastOp.link = ErrNil)
        => \/ lastOp.query = <<>>
           \/ StartsWith(lastOp.query, sSelect)
           \/ ParseUpdate(lastOp.query).ok

\* C2: the statement UpdateUserByID builds assigns exactly the present
\* fields, in the order first_name, last_name, age, email, the i-th of them
\* to $i and nothing else; absent fields are not assigned; the identity
\* filter is $(k+1) and closes the statement; the parameters are the k patch
\* values in that order followed by the identity.
C2_StatementAssignsPresentFields ==
    IsUpdate =>
        LET q == lastOp.query
            ps == lastOp.params
            present == PresentFields(lastOp.updates)
            all == PatchFields(lastOp.updates)
            k == Len(present)
            at(i) == Occurrences(q, present[i].col \o sEqDollar \o Itoa(i))
            where == Occurrences(q, sWhereId \o Itoa(k + 1) \o sReturning)
        IN  /\ Len(ps) = k + 1
            /\ ps[k + 1] = TextParam(lastOp.id)
            /\ \A i \in 1..k : ps[i] = present[i].param
            /\ \A i \in 1..k :
                  /\ Cardinality(at(i)) = 1
                  /\ Cardinality(Occurrences(q, present[i].col \o sEqDollar)) = 1
            /\ \A i \in 1..4 :
                  all[i].ptr = Nil => Occurrences(q, all[i].col \o sEqDollar) = {}
            /\ \A i \in 1..k : \A j \in 1..k :
                  i < j => \A x \in at(i) : \A y \in at(j) : x < y
            /\ Cardinality(where) = 1
            /\ Cardinality(Occurrences(q, sWhereId)) = 1
            /\ EndsWith(q, sWhereId \o Itoa(k + 1) \o sReturning)
            /\ \A i \in 1..k : \A x \in at(i) : \A y \in where : x < y

\* a statement with two of the four fields present was built
C2_Witness ==
    /\ IsUpdate
    /\ lastOp.updates = UserUpdate(Nil, Ptr(<<"M">>), Ptr(30), Nil)
    /\ Len(lastOp.params) = 3

\* C3 as stated: Health() returns to its caller in both cases, with status
\* "down" and a non-empty error description when the connectivity check
\* failed and with status "up" when it succeeded, and the process keeps
\* running.
C3_HealthAlwaysReturns ==
    IsHealth =>
        /\ lastOp.returned
        /\ running
        /\ IF lastOp.link # ErrNil
           THEN lastOp.stats.status = <<"down">> /\ lastOp.stats.error # <<>>
           ELSE lastOp.stats.status = <<"up">>

\* C3 amended: when the connectivity check succeeds Health() returns status
\* "up" and the process keeps running; when it fails Health() fills in
\* status "down" and a non-empty error description, and then ends the
\* process (log.Fatalf), so the snapshot never reaches the caller.
C3_FailedProbeEndsTheProcess ==
    IsHealth =>
        IF lastOp.link # ErrNil
        THEN /\ lastOp.stats.status = <<"down">>
             /\ lastOp.stats.error # <<>>
             /\ ~lastOp.returned
             /\ ~running
        ELSE /\ lastOp.stats.status = <<"up">>
             /\ lastOp.stats.error = <<>>
             /\ lastOp.returned
             /\ running

\* Health() was called on a closed handle
C3_Witness ==
    /\ IsHealth
    /\ lastOp.link = ErrClosed
    /\ lastOp.stats.status = <<"down">>
    /\ ~running

\* the fields of a user a fetch returns, compared with those of an input
SameFields(u, v) ==
    /\ u.FirstName = v.FirstName
    /\ u.LastName = v.LastName
    /\ u.Age = v.Age
    /\ u.Email = v.Email

\* the identities handed out before the last CreateUser
EarlierIdentities == {Uuid(n) : n \in 1..(nextUuid - 1)}

\* C5 as stated: after a successful CreateUser the caller holds the new
\* identity (CreateUser hands back nothing but an error, so it can only be
\* in the user the caller passed), and GetUserByID on the identity the
\* caller holds yields the fields created, with a non-empty id that no
\* earlier CreateUser issued.
C5_CallerHoldsNewIdentity ==
    (IsCreate /\ lastOp.err = ErrNil) =>
        LET held == Deref(lastOp.userAfter).ID
            g == GetUserByID(store, ErrNil, held)
        IN  /\ held = lastOp.minted
            /\ g.err = ErrNil
            /\ SameFields(Deref(g.user), Deref(lastOp.user))
            /\ Deref(g.user).ID # <<>>
            /\ Deref(g.user).ID \notin EarlierIdentities

\* C5 amended: after a successful CreateUser the table holds the user under
\* the identity CreateUser minted: GetUserByID on that identity yields
\* exactly the fields created and that identity, which is non-empty, was in
\* no row before and was issued by no earlier CreateUser, whatever ID the
\* input carried.  CreateUser returns only the error and leaves the caller's
\* user as it was, so the caller is not handed the identity.
C5_RoundTripOnMintedIdentity ==
    (IsCreate /\ lastOp.err = ErrNil) =>
        LET g == GetUserByID(store, ErrNil, lastOp.minted)
        IN  /\ g.err = ErrNil
            /\ SameFields(Deref(g.user), Deref(lastOp.user))
            /\ Deref(g.user).ID = lastOp.minted
            /\ lastOp.minted # <<>>
            /\ lastOp.minted \notin EarlierIdentities
            /\ \A r \in prevStore : r.id # lastOp.minted
            /\ lastOp.userAfter = lastOp.user

\* a second user was created by a caller whose user.ID named the first
C5_Witness ==
    /\ IsCreate
    /\ lastOp.err = ErrNil
    /\ lastOp.minted = Uuid(2)
    /\ Deref(lastOp.user).ID = Uuid(1)
    /\ Cardinality(store) = 2

\* the value a patch gives a column: the patch's if present, else the old one
Patched(ptr, old) == IF ptr = Nil THEN old ELSE Deref(ptr)

\* C8: a successful UpdateUserByID with at least one present field sets each
\* present field of the row to the patch value and leaves every absent
\* field, the id and every other row unchanged; the user returned is the one
\* GetUserByID returns afterwards.
C8_UpdateSetsPresentFieldsOnly ==
    (IsUpdate /\ lastOp.err = ErrNil /\ lastOp.updates # NoUpdate) =>
        LET u == lastOp.updates
        IN  \E old \in prevStore :
               LET new == Row(old.id,
                              Patched(u.FirstName, old.first_name),
                              Patched(u.LastName, old.last_name),
                              Patched(u.Age, old.age),
                              Patched(u.Email, old.email))
               IN  /\ old.id = lastOp.id
                   /\ store = (prevStore \ {old}) \cup {new}
                   /\ lastOp.ret = Ptr(User(new.id, new.first_name,
                                            new.last_name, new.age, new.email))
                   /\ GetUserByID(store, ErrNil, lastOp.id).user = lastOp.ret

\* only the age of one of two users was updated, and it changed
C8_Witness ==
    /\ IsUpdate
    /\ lastOp.err = ErrNil
    /\ lastOp.updates = UserUpdate(Nil, Nil, Ptr(30), Nil)
    /\ Cardinality(store) = 2
    /\ \E old \in prevStore : old.id = lastOp.id /\ old.age = 0

\* C9: no two rows of the table share an email, and a CreateUser whose email
\* is that of an existing row fails and leaves the table as it was.
C9_EmailUnique ==
    /\ \A r1 \in store : \A r2 \in store : r1.email = r2.email => r1 = r2
    /\ (IsCreate /\ \E r \in prevStore : r.email = Deref(lastOp.user).Email)
          => lastOp.err # ErrNil /\ store = prevStore

\* a CreateUser with the email of the one stored user was refused
C9_Witness ==
    /\ IsCreate
    /\ lastOp.err = ErrUnique
    /\ Cardinality(store) = 1
    /\ \E r \in store : r.email = Deref(lastOp.user).Email

\* C10: GetUserByID and UpdateUserByID with an id that matches no row (the
\* store being reached) return a nil user and the not-found error and leave
\* the table unchanged.
C10_NotFound ==
    ((IsGet \/ IsUpdate) /\ lastOp.link = ErrNil
        /\ \A r \in prevStore : r.id # lastOp.id)
        => /\ lastOp.ret = Nil
           /\ lastOp.err = ErrNoRows
           /\ store = prevStore

----------------------------------------------------------------------------
(* Properties of New(), checked under SpecNew *)

\* C4: over any interleaving of calls to New() at most one database handle
\* is ever created, and every call that has returned returned the same one.
C4_NewSingleton ==
    /\ opened <= 1
    /\ \A c \in Callers : \A d \in Callers :
          (newRet[c] # 0 /\ newRet[d] # 0) => newRet[c] = newRet[d]

----------------------------------------------------------------------------
(* Properties of the validator, checked under SpecValidator *)

\* the email pattern read as a shape: a non-empty local part of LocalClass,
\* an '@', a non-empty domain of DomainClass, a '.', two or more letters
HasEmailShape(s) ==
    \E i \in 1..Len(s) : \E j \in 1..Len(s) :
        /\ 1 < i
        /\ i + 1 < j
        /\ j + 2 <= Len(s)
        /\ s[i] = "@"
        /\ s[j] = "."
        /\ \A x \in 1..(i - 1) : s[x] \in LocalClass
        /\ \A x \in (i + 1)..(j - 1) : s[x] \in DomainClass
        /\ \A x \in (j + 1)..Len(s) : s[x] \in Alpha

\* C6: ValidateUser returns an error exactly when FirstName is empty, or
\* LastName is empty, or Email does not have the shape of the pattern; Age,
\* ID and Created play no part.
C6_ValidateUserIff ==
    (vIn.kind = "User" /\ vOut.user # NotRun) =>
        (vOut.user # ErrNil
            <=> \/ vIn.user.FirstName = <<>>
                \/ vIn.user.LastName = <<>>
                \/ ~HasEmailShape(vIn.user.Email))

\* a user with a client-chosen ID, age 30 and a well-formed email passed
C6_Witness ==
    /\ vIn.kind = "User"
    /\ vOut.user = ErrNil
    /\ vIn.user.Email = goodMail
    /\ vIn.user.Age = 30
    /\ vIn.user.ID # <<>>

\* C7: ValidateUserUpdate returns an error exactly when FirstName is present
\* and empty, or LastName is present and empty, or Email is present and does
\* not have the shape of the pattern; an absent field never causes one, so
\* the empty update and an update of the age alone are accepted.
C7_ValidateUserUpdateIff ==
    (vIn.kind = "UserUpdate" /\ vOut.updates # NotRun) =>
        LET u == vIn.updates
        IN  /\ vOut.updates # ErrNil
                <=> \/ (u.FirstName # Nil /\ Deref(u.FirstName) = <<>>)
                    \/ (u.LastName # Nil /\ Deref(u.LastName) = <<>>)
                    \/ (u.Email # Nil /\ ~HasEmailShape(Deref(u.Email)))
            /\ (u.FirstName = Nil /\ u.LastName = Nil /\ u.Email = Nil)
                  => vOut.updates = ErrNil

\* an update of the age alone was accepted
C7_Witness ==
    /\ vIn.kind = "UserUpdate"
    /\ vIn.updates = UserUpdate(Nil, Nil, Ptr(30), Nil)
    /\ vOut.updates = ErrNil

====
